---- MODULE Spec2Model ----
(***************************************************************************)
(* Model of tg-kinoclub-helper: the shortlist store (src/src/storage.rs)   *)
(* with its write lock and its write-temp-then-rename flush, and the       *)
(* retry loop of the catalog client (src/src/tmdb.rs, get_json).           *)
(***************************************************************************)
EXTENDS Integers, Sequences, FiniteSets, TLC

(* ------------------------------ bounds -------------------------------- *)
NumTasks == 2

Tasks == 1..NumTasks
ChatIds == {1, 2}

(* --------------------------- program constants ------------------------ *)
MaxMovies == 10
ListLimit == 10
CurrentVersion == 1

VARIABLES
    inner,        \* Storage.inner: the FileState [version, chats]
    wlock,        \* holder of the RwLock write guard, 0 when free
    disk,         \* the state file (path) and the temp file (tmp)
    task,         \* per task: position in the store operation it runs
    gen,          \* ghost: number of changes made to inner so far
    lastFlushed,  \* ghost: document of the last flush that returned Ok
    gj,           \* one get_json call: position, delays iterator, history
    bt,           \* one best_trailer_url call: position, collected videos
    LAST_SEARCH,  \* tg.rs LAST_SEARCH: chat -> results of its last search
    ev,           \* the update handled last: what the handler sent and returned
    vote          \* one run_vote_flow: position in the list, what it sent

vars == <<inner, wlock, disk, task, gen, lastFlushed, gj, bt, LAST_SEARCH, ev, vote>>

tgVars == <<bt, LAST_SEARCH, ev, vote>>

(* ------------------------------ storage.rs ---------------------------- *)
\* an Option<String> as a sequence of characters
NoneStr == [some |-> FALSE, s |-> <<>>]
SomeStr(chars) == [some |-> TRUE, s |-> chars]

StoredMovie(i, t) == [id |-> i, title |-> t]

NoMovie == StoredMovie(0, "")

FreshState == [version |-> CurrentVersion, chats |-> <<>>]

\* HashMap::get(..).cloned().unwrap_or_default()
Get(chats, chat_id) == IF chat_id \in DOMAIN chats THEN chats[chat_id] ELSE <<>>

\* HashMap::insert
MapInsert(chats, chat_id, movies) ==
    [c \in (DOMAIN chats) \cup {chat_id} |-> IF c = chat_id THEN movies ELSE chats[c]]

\* HashMap::remove
MapRemove(chats, chat_id) == [c \in (DOMAIN chats) \ {chat_id} |-> chats[c]]

Max(a, b) == IF a > b THEN a ELSE b

TruncateNever(movies) == movies

\* if movies.len() > 10 { movies.truncate(10); }
Truncate(movies) ==
    IF Len(movies) > MaxMovies THEN SubSeq(movies, 1, MaxMovies) ELSE movies

PutChatsExtend(chats, chat_id, movies) ==
    MapInsert(chats, chat_id, Truncate(Get(chats, chat_id) \o movies))

\* put: guard.chats.insert(chat_id, movies) after the truncation
PutChats(chats, chat_id, movies) == MapInsert(chats, chat_id, Truncate(movies))

RemoveChatsAll(chats, chat_id) == <<>>

\* remove_chat: guard.chats.remove(&chat_id)
RemoveChats(chats, chat_id) == MapRemove(chats, chat_id)

HasId(list, i) == \E k \in 1..Len(list) : list[k].id = i

AddEntryUpsert(list, m) ==
    IF HasId(list, m.id)
    THEN [list |-> [k \in 1..Len(list) |-> IF list[k].id = m.id THEN m ELSE list[k]],
          added |-> FALSE]
    ELSE IF Len(list) >= MaxMovies THEN [list |-> list, added |-> FALSE]
    ELSE [list |-> Append(list, m), added |-> TRUE]

AddEntryNoIdTest(list, m) ==
    IF Len(list) >= MaxMovies THEN [list |-> list, added |-> FALSE]
    ELSE [list |-> Append(list, m), added |-> TRUE]

\* add_movie, the decision on the entry: any(id) / len() >= 10 / push
AddEntry(list, m) ==
    IF HasId(list, m.id) THEN [list |-> list, added |-> FALSE]
    ELSE IF Len(list) >= MaxMovies THEN [list |-> list, added |-> FALSE]
    ELSE [list |-> Append(list, m), added |-> TRUE]

\* add_movie under the write guard: entry(chat_id).or_default(), then AddEntry
AddMovie(chats, chat_id, m) ==
    LET r == AddEntry(Get(chats, chat_id), m)
    IN  [chats |-> MapInsert(chats, chat_id, r.list), changed |-> r.added]

RECURSIVE Retain(_, _)
\* list.retain(|m| m.id != movie_id)
Retain(list, movie_id) ==
    IF list = <<>> THEN <<>>
    ELSE IF Head(list).id # movie_id
         THEN <<Head(list)>> \o Retain(Tail(list), movie_id)
         ELSE Retain(Tail(list), movie_id)

\* Vec::swap_remove at index k
SwapRemove(list, k) ==
    [i \in 1..(Len(list) - 1) |-> IF i = k THEN list[Len(list)] ELSE list[i]]

DeleteMovieSwapRemove(chats, chat_id, movie_id) ==
    IF chat_id \in DOMAIN chats /\ HasId(chats[chat_id], movie_id)
    THEN LET k == CHOOSE i \in 1..Len(chats[chat_id]) : chats[chat_id][i].id = movie_id
         IN  [chats |-> MapInsert(chats, chat_id, SwapRemove(chats[chat_id], k)),
              changed |-> TRUE]
    ELSE [chats |-> chats, changed |-> FALSE]

\* delete_movie under the write guard
DeleteMovie(chats, chat_id, movie_id) ==
    IF chat_id \in DOMAIN chats
    THEN LET after == Retain(chats[chat_id], movie_id)
         IN  [chats |-> MapInsert(chats, chat_id, after),
              changed |-> Len(after) < Len(chats[chat_id])]
    ELSE [chats |-> chats, changed |-> FALSE]

(* ------------------------------ the files ----------------------------- *)
RECURSIVE SumLens(_, _)
SumLens(chats, S) ==
    IF S = {} THEN 0
    ELSE LET c == CHOOSE x \in S : TRUE
         IN  1 + Len(chats[c]) + SumLens(chats, S \ {c})

\* size of serde_json::to_vec_pretty(&FileState), in units of one entry
SerLen(doc) == 1 + SumLens(doc.chats, DOMAIN doc.chats)

\* a file: the document whose bytes were written last from offset 0, and the
\* file's length; gen is the ghost generation of that document
Missing == [exists |-> FALSE, doc |-> FreshState, len |-> 0, gen |-> 0]
EmptyFile == [exists |-> TRUE, doc |-> FreshState, len |-> 0, gen |-> 0]

\* serde_json::to_vec_pretty(&*guard)
Serialize(state, g) == [exists |-> TRUE, doc |-> state, len |-> SerLen(state), gen |-> g]

\* write_all from offset 0 into a file that already holds old bytes
Overlay(old, bytes) ==
    [exists |-> TRUE, doc |-> bytes.doc, len |-> Max(old.len, bytes.len), gen |-> bytes.gen]

\* serde_json::from_slice succeeds on the file's bytes
Parses(f) == f.exists /\ f.len = SerLen(f.doc)

LoadKeepsVersion(f) ==
    IF ~f.exists THEN FreshState
    ELSE IF Parses(f) THEN f.doc
         ELSE FreshState

\* Storage::new: the state loaded from the file at path
Load(f) ==
    IF ~f.exists THEN FreshState
    ELSE IF Parses(f)
         THEN (IF f.doc.version = 0 THEN [f.doc EXCEPT !.version = CurrentVersion] ELSE f.doc)
         ELSE FreshState

(* ------------------------------ inputs -------------------------------- *)
Run(n) == [i \in 1..n |-> StoredMovie(i, "A")]

PutInputs == {Run(12), <<StoredMovie(1, "A"), StoredMovie(2, "A"), StoredMovie(1, "B")>>}
AddInputs == {StoredMovie(1, "C"), StoredMovie(11, "A")}
DeleteInputs == {5}

NoCall == [op |-> "none", chat_id |-> 0, movies |-> <<>>, m |-> NoMovie, movie_id |-> 0]

Calls ==
    {[op |-> "put", chat_id |-> c, movies |-> ms, m |-> NoMovie, movie_id |-> 0] :
        c \in ChatIds, ms \in PutInputs}
    \cup {[op |-> "remove_chat", chat_id |-> c, movies |-> <<>>, m |-> NoMovie, movie_id |-> 0] :
        c \in ChatIds}
    \cup {[op |-> "add_movie", chat_id |-> c, movies |-> <<>>, m |-> mv, movie_id |-> 0] :
        c \in ChatIds, mv \in AddInputs}
    \cup {[op |-> "delete_movie", chat_id |-> c, movies |-> <<>>, m |-> NoMovie, movie_id |-> i] :
        c \in ChatIds, i \in DeleteInputs}

IdleTask == [pc |-> "idle", call |-> NoCall, changed |-> FALSE, snapshot |-> Missing,
             fd |-> "none", ret |-> "none", mutgen |-> 0]

(* ------------------------------ get_json ------------------------------ *)
Delays == <<300, 800, 1500>>

Statuses == {200, 400, 401, 403, 404, 429, 500, 503}

\* what one req.send() + resp.json() can produce
Outcomes ==
    {[send |-> "Err", status |-> 0, json |-> FALSE]}
    \cup {[send |-> "Ok", status |-> s, json |-> TRUE] : s \in Statuses}
    \cup {[send |-> "Ok", status |-> 200, json |-> FALSE]}

IsServerError(s) == s >= 500 /\ s <= 599

TmdbOk == [kind |-> "Ok", code |-> 0]
TmdbErr(k, c) == [kind |-> k, code |-> c]
NoRet == [kind |-> "none", code |-> 0]

RetryGivesUpAsNet(delays, err) ==
    IF delays # <<>>
    THEN [next |-> "sleep", ms |-> Head(delays), delays |-> Tail(delays), ret |-> NoRet]
    ELSE [next |-> "done", ms |-> 0, delays |-> delays, ret |-> [kind |-> "Net", code |-> 0]]

RetryFromLastDelay(delays, err) ==
    IF delays # <<>>
    THEN [next |-> "sleep", ms |-> delays[Len(delays)],
          delays |-> SubSeq(delays, 1, Len(delays) - 1), ret |-> NoRet]
    ELSE [next |-> "done", ms |-> 0, delays |-> delays, ret |-> err]

\* the three retry arms: if let Some(ms) = delays.next() { sleep; continue } else { return Err }
Retry(delays, err) ==
    IF delays # <<>>
    THEN [next |-> "sleep", ms |-> Head(delays), delays |-> Tail(delays), ret |-> NoRet]
    ELSE [next |-> "done", ms |-> 0, delays |-> delays, ret |-> err]

Return(delays, r) == [next |-> "done", ms |-> 0, delays |-> delays, ret |-> r]

StepRetries404(o, delays) ==
    IF o.send = "Err" THEN Retry(delays, TmdbErr("Net", 0))
    ELSE IF o.status = 200
         THEN (IF o.json THEN Return(delays, TmdbOk) ELSE Return(delays, TmdbErr("Net", 0)))
    ELSE IF o.status = 429 THEN Retry(delays, TmdbErr("RateLimited", 0))
    ELSE IF o.status = 401 THEN Return(delays, TmdbErr("Auth", 0))
    ELSE IF o.status = 403 THEN Return(delays, TmdbErr("Forbidden", 0))
    ELSE IF o.status = 404 THEN Retry(delays, TmdbErr("NotFound", 0))
    ELSE IF IsServerError(o.status) THEN Retry(delays, TmdbErr("Server", o.status))
    ELSE Return(delays, TmdbErr("Unexpected", o.status))

\* one pass of the loop body of get_json on the outcome o of the attempt
Step(o, delays) ==
    IF o.send = "Err" THEN Retry(delays, TmdbErr("Net", 0))
    ELSE IF o.status = 200
         THEN (IF o.json THEN Return(delays, TmdbOk) ELSE Return(delays, TmdbErr("Net", 0)))
    ELSE IF o.status = 429 THEN Retry(delays, TmdbErr("RateLimited", 0))
    ELSE IF o.status = 401 THEN Return(delays, TmdbErr("Auth", 0))
    ELSE IF o.status = 403 THEN Return(delays, TmdbErr("Forbidden", 0))
    ELSE IF o.status = 404 THEN Return(delays, TmdbErr("NotFound", 0))
    ELSE IF IsServerError(o.status) THEN Retry(delays, TmdbErr("Server", o.status))
    ELSE Return(delays, TmdbErr("Unexpected", o.status))

IdleCall == [pc |-> "idle", delays |-> <<>>, ms |-> 0, slept |-> <<>>, attempts |-> 0,
             log |-> <<>>, ret |-> NoRet]

(* -------------------------- best_trailer_url -------------------------- *)
\* tmdb.rs Video; official is an Option<bool>
Video(k, s, t, o) == [key |-> k, site |-> s, type |-> t, official |-> o]

\* the spec's example: unofficial Teaser, official Trailer, official Teaser
ExampleVideos ==
    <<Video("k1", "YouTube", "Teaser", "false"),
      Video("k2", "YouTube", "Trailer", "true"),
      Video("k3", "YouTube", "Teaser", "true")>>

VideoLists ==
    {<<>>,
     ExampleVideos,
     <<Video("k4", "Vimeo", "Trailer", "true"), Video("k5", "youtube", "Clip", "none")>>,
     <<Video("k6", "YouTube", "Trailer", "false"), Video("k7", "YouTube", "Teaser", "true"),
       Video("k8", "YouTube", "Teaser", "true")>>}

\* what get_json::<VideosResp> returns for one language
VideoResponses ==
    {[ok |-> TRUE, results |-> vs, err |-> NoRet] : vs \in VideoLists}
    \cup {[ok |-> FALSE, results |-> <<>>, err |-> e] :
            e \in {TmdbErr("Net", 0), TmdbErr("NotFound", 0), TmdbErr("Server", 500)}}

Langs == <<"ru-RU", "en-US">>

\* str::to_ascii_lowercase on the site names that occur
AsciiLower(s) == IF s = "YouTube" THEN "youtube" ELSE s

\* v.site.eq_ignore_ascii_case("YouTube")
IsYouTube(v) == AsciiLower(v.site) = AsciiLower("YouTube")

SortKeyTypeFirst(v) ==
    <<CASE v.type = "Trailer" -> 0 [] v.type = "Teaser" -> 1 [] OTHER -> 2,
      IF v.official = "true" THEN 0 ELSE 1>>

\* the key of sort_by_key: (official, typ)
SortKey(v) ==
    <<IF v.official = "true" THEN 0 ELSE 1,
      CASE v.type = "Trailer" -> 0 [] v.type = "Teaser" -> 1 [] OTHER -> 2>>

\* Ord on the tuple (official, typ)
KeyLess(a, b) == a[1] < b[1] \/ (a[1] = b[1] /\ a[2] < b[2])

RECURSIVE InsertByKey(_, _)
\* stable insertion: v goes behind every element whose key is not greater
InsertByKey(sorted, v) ==
    IF sorted = <<>> THEN <<v>>
    ELSE IF KeyLess(SortKey(v), SortKey(Head(sorted)))
         THEN <<v>> \o sorted
         ELSE <<Head(sorted)>> \o InsertByKey(Tail(sorted), v)

RECURSIVE SortByKey(_)
\* candidates.sort_by_key(..): a stable sort
SortByKey(vs) ==
    IF vs = <<>> THEN <<>>
    ELSE InsertByKey(SortByKey(SubSeq(vs, 1, Len(vs) - 1)), vs[Len(vs)])

NoUrl == [some |-> FALSE, url |-> <<>>]

\* format!("https://www.youtube.com/watch?v={}", v.key)
WatchUrl(v) == [some |-> TRUE, url |-> <<"https://www.youtube.com/watch?v=", v.key>>]

\* filter on the site, sort, candidates.first().map(..)
PickTrailer(all) ==
    LET candidates == SortByKey(SelectSeq(all, IsYouTube))
    IN  IF candidates = <<>> THEN NoUrl ELSE WatchUrl(candidates[1])

IdleTrailer == [pc |-> "idle", media_type |-> "none", lang |-> 0, all |-> <<>>,
                any_ok |-> FALSE, last_err |-> NoRet, resp |-> <<>>,
                ret |-> [kind |-> "none", url |-> NoUrl, err |-> NoRet]]

AfterQueryKeepsFirstErr(b, r) ==
    IF r.ok
    THEN [b EXCEPT !.any_ok = TRUE, !.all = @ \o r.results]
    ELSE [b EXCEPT !.last_err = IF @ = NoRet THEN r.err ELSE @]

\* the match on one language's get_json result
AfterQuery(b, r) ==
    IF r.ok
    THEN [b EXCEPT !.any_ok = TRUE, !.all = @ \o r.results]
    ELSE [b EXCEPT !.last_err = r.err]

\* if !any_ok { return Err(last_err.unwrap_or(Net)) } ... Ok(candidates.first()..)
TrailerResult(b) ==
    IF ~b.any_ok
    THEN [kind |-> "Err", url |-> NoUrl,
          err |-> IF b.last_err = NoRet THEN TmdbErr("Net", 0) ELSE b.last_err]
    ELSE [kind |-> "Ok", url |-> PickTrailer(b.all), err |-> NoRet]

(* -------------------------------- tg.rs ------------------------------- *)
IsoDate == <<"2", "0", "2", "4", "-", "0", "5", "-", "1", "7">>

\* tg.rs Movie: an item of a search or detail response
Movie(i, t, d, p) == [id |-> i, title |-> t, release_date |-> d, poster_path |-> p]

M1 == Movie(1, "A", SomeStr(IsoDate), TRUE)
M11 == Movie(11, "K", NoneStr, FALSE)

\* StoredMovie { id: m.id, title: m.title.clone(), .. } in on_callback
StoredFrom(m) ==
    [id |-> m.id, title |-> m.title, poster_path |-> m.poster_path,
     release_date |-> m.release_date]

\* str::get(..4) on an ASCII string
Get4(chars) == IF Len(chars) >= 4 THEN SomeStr(SubSeq(chars, 1, 4)) ELSE NoneStr

OneLineTitleStoredRaw(m) ==
    IF m.release_date.some
    THEN <<m.title, " (">> \o m.release_date.s \o <<")">>
    ELSE <<m.title>>

\* one_line_title_stored: "{title} ({y})" or the title
OneLineTitleStored(m) ==
    LET y == IF m.release_date.some THEN Get4(m.release_date.s) ELSE NoneStr
    IN  IF y.some THEN <<m.title, " (">> \o y.s \o <<")">> ELSE <<m.title>>

\* what the handlers send: a message, a callback answer, a photo, a poll
Msg(via, text) == [via |-> via, text |-> text, options |-> <<>>]
Poll(options) == [via |-> "poll", text |-> "WhatDoWeWatch", options |-> options]

\* a result of search_movies_ru or movie_details_ru (Ok(None) has no result)
CatalogOk(ms) == [ok |-> TRUE, results |-> ms, err |-> NoRet]
CatalogErr(e) == [ok |-> FALSE, results |-> <<>>, err |-> e]
NoCatalog == [ok |-> TRUE, results |-> <<>>, err |-> NoRet]

SearchResponses ==
    {CatalogOk(<<>>), CatalogOk(<<M1, M11>>), CatalogOk(<<M11>>),
     CatalogErr(TmdbErr("RateLimited", 0))}

DetailResponses ==
    {CatalogOk(<<M1>>), CatalogOk(<<M11>>), CatalogOk(<<>>),
     CatalogErr(TmdbErr("NotFound", 0))}

\* callback data, character by character
Data(cmd, id_str) == cmd \o <<":">> \o id_str

CallbackData ==
    {Data(<<"a", "d", "d">>, <<"1">>), Data(<<"a", "d", "d">>, <<"1", "1">>),
     Data(<<"d", "e", "l">>, <<"+", "1", "1">>), Data(<<"s", "h", "o", "w">>, <<"1">>),
     Data(<<"z", "a", "p">>, <<"1">>), Data(<<"a", "d", "d">>, <<"x">>),
     <<"z", "a", "p">>}

\* data.splitn(2, ':'): the part before the first ':' and the rest
SplitN2(data) ==
    IF \E k \in 1..Len(data) : data[k] = ":"
    THEN LET k == CHOOSE j \in 1..Len(data) :
                      data[j] = ":" /\ \A h \in 1..(j - 1) : data[h] # ":"
         IN  [cmd |-> SubSeq(data, 1, k - 1), id_str |-> SubSeq(data, k + 1, Len(data))]
    ELSE [cmd |-> data, id_str |-> <<>>]

DigitVal(c) ==
    CASE c = "0" -> 0 [] c = "1" -> 1 [] c = "2" -> 2 [] c = "3" -> 3 [] c = "4" -> 4
      [] c = "5" -> 5 [] c = "6" -> 6 [] c = "7" -> 7 [] c = "8" -> 8 [] c = "9" -> 9
      [] OTHER -> -1

RECURSIVE DigitsVal(_)
DigitsVal(chars) ==
    IF chars = <<>> THEN 0
    ELSE 10 * DigitsVal(SubSeq(chars, 1, Len(chars) - 1)) + DigitVal(chars[Len(chars)])

\* str::parse::<u64>: an optional '+', then one or more digits
ParseU64(chars) ==
    LET digits == IF chars # <<>> /\ chars[1] = "+" THEN Tail(chars) ELSE chars
    IN  IF digits # <<>> /\ \A k \in 1..Len(digits) : DigitVal(digits[k]) >= 0
        THEN [ok |-> TRUE, val |-> DigitsVal(digits)]
        ELSE [ok |-> FALSE, val |-> 0]

FindAnywhere(cache, chat_id, id) ==
    LET all == {m \in UNION {{cache[c][k] : k \in 1..Len(cache[c])} : c \in DOMAIN cache} :
                    m.id = id}
    IN  IF all = {} THEN <<>> ELSE <<CHOOSE m \in all : TRUE>>

\* map.get(&chat_id).and_then(|v| v.iter().find(|m| m.id == id)).cloned()
Find(cache, chat_id, id) ==
    LET v == Get(cache, chat_id)
    IN  IF \E k \in 1..Len(v) : v[k].id = id
        THEN <<v[CHOOSE k \in 1..Len(v) : v[k].id = id /\ \A h \in 1..(k - 1) : v[h].id # id]>>
        ELSE <<>>

\* send_list_view
ListView(chats, chat_id) ==
    IF Get(chats, chat_id) = <<>> THEN <<Msg("message", "ListEmpty")>>
    ELSE <<Msg("message", "ListView")>>

\* what a callback arm leaves behind: the store's map, what was sent, the
\* handler's result, and which calls it made (flush, catalog, image)
Arm(chats, sent, ret, flush, catalog, image) ==
    [chats |-> chats, sent |-> sent, ret |-> ret, flush |-> flush,
     catalog |-> catalog, image |-> image]

\* "add" => { .. }
AddArm(chats, cache, chat_id, id, flushOk) ==
    LET movie_opt == Find(cache, chat_id, id)
    IN  IF movie_opt = <<>>
        THEN Arm(chats, <<Msg("answer", "NotInLastSearch")>>, "Ok", "none", NoCatalog, "none")
        ELSE LET r == AddMovie(chats, chat_id, StoredFrom(movie_opt[1]))
             IN  IF r.changed
                 THEN (IF flushOk
                       THEN Arm(r.chats, <<Msg("answer", "Added")>> \o ListView(r.chats, chat_id),
                                "Ok", "ok", NoCatalog, "none")
                       ELSE Arm(r.chats, <<>>, "Err", "failed", NoCatalog, "none"))
                 ELSE Arm(r.chats,
                          <<IF Len(Get(r.chats, chat_id)) >= ListLimit
                            THEN Msg("answer", "ListFull")
                            ELSE Msg("answer", "AlreadyInList")>>,
                          "Ok", "none", NoCatalog, "none")

\* "del" => { .. }
DelArm(chats, chat_id, id, flushOk) ==
    LET r == DeleteMovie(chats, chat_id, id)
    IN  IF r.changed
        THEN (IF flushOk
              THEN Arm(r.chats, <<Msg("answer", "Deleted")>> \o ListView(r.chats, chat_id),
                       "Ok", "ok", NoCatalog, "none")
              ELSE Arm(r.chats, <<>>, "Err", "failed", NoCatalog, "none"))
        ELSE Arm(r.chats, <<Msg("answer", "NotInList")>>, "Ok", "none", NoCatalog, "none")

\* "show" => { .. }
ShowArm(chats, details, imageOk) ==
    IF ~details.ok THEN Arm(chats, <<>>, "Err", "none", details, "none")
    ELSE IF details.results = <<>>
         THEN Arm(chats, <<Msg("answer", "NoData")>>, "Ok", "none", details, "none")
    ELSE IF details.results[1].poster_path
         THEN Arm(chats,
                  <<Msg("message", "Details")>>
                  \o (IF imageOk THEN <<Msg("photo", "Poster")>> ELSE <<>>)
                  \o <<Msg("answer", "Shown")>>,
                  "Ok", "none", details, IF imageOk THEN "ok" ELSE "failed")
         ELSE Arm(chats, <<Msg("message", "Details")>> \o <<Msg("answer", "Shown")>>,
                  "Ok", "none", details, "none")

\* on_callback from the split of the data to the end of the match
Callback(chats, cache, chat_id, data, flushOk, details, imageOk) ==
    LET parts == SplitN2(data)
        id == ParseU64(parts.id_str)
    IN  IF ~id.ok THEN Arm(chats, <<>>, "Ok", "none", NoCatalog, "none")
        ELSE IF parts.cmd = <<"a", "d", "d">> THEN AddArm(chats, cache, chat_id, id.val, flushOk)
        ELSE IF parts.cmd = <<"d", "e", "l">> THEN DelArm(chats, chat_id, id.val, flushOk)
        ELSE IF parts.cmd = <<"s", "h", "o", "w">> THEN ShowArm(chats, details, imageOk)
        ELSE Arm(chats, <<Msg("answer", "UnknownAction")>>, "Ok", "none", NoCatalog, "none")

NoEvent == [kind |-> "none", chat |-> 0, data |-> <<>>, catalog |-> NoCatalog,
            image |-> "none", flush |-> "none", sent |-> <<>>, ret |-> "none"]

Event(kind, chat, data, catalog, image, flush, sent, ret) ==
    [kind |-> kind, chat |-> chat, data |-> data, catalog |-> catalog,
     image |-> image, flush |-> flush, sent |-> sent, ret |-> ret]

IdleVote == [pc |-> "idle", chat |-> 0, list |-> <<>>, i |-> 0, sent |-> <<>>,
             blocks |-> <<>>, trailer_lines |-> <<>>, lookups |-> 0, ret |-> "none"]

(* ------------------------------- Init --------------------------------- *)
\* Storage::new on a missing state file; no operation and no call running
Init ==
    /\ inner = Load(Missing)
    /\ wlock = 0
    /\ disk = [path |-> Missing, tmp |-> Missing]
    /\ task = [t \in Tasks |-> IdleTask]
    /\ gen = 0
    /\ lastFlushed = FreshState
    /\ gj = IdleCall
    /\ bt = IdleTrailer
    /\ LAST_SEARCH = <<>>
    /\ ev = NoEvent
    /\ vote = IdleVote

(* ------------------------ store operations ---------------------------- *)
\* a task (one per inbound event, numbered in the order they start) enters
\* put / remove_chat / add_movie / delete_movie and obtains the write guard
\* (self.inner.write().await); the store treats all chat ids alike, so the
\* first call is taken on chat 1
Invoke(t) ==
    /\ task[t].pc = "idle"
    /\ \A u \in Tasks : u < t => task[u].pc # "idle"
    /\ wlock = 0
    /\ \E c \in Calls :
        /\ t = 1 => c.chat_id = 1
        /\ task' = [task EXCEPT ![t] = [IdleTask EXCEPT !.pc = "locked", !.call = c]]
    /\ wlock' = t
    /\ UNCHANGED <<inner, disk, gen, lastFlushed, gj, tgVars>>

\* the block under the write guard, up to the drop of the guard
Mutated(call, chats) ==
    CASE call.op = "put" ->
            [chats |-> PutChats(chats, call.chat_id, call.movies), changed |-> TRUE]
      [] call.op = "remove_chat" ->
            [chats |-> RemoveChats(chats, call.chat_id), changed |-> TRUE]
      [] call.op = "add_movie" -> AddMovie(chats, call.chat_id, call.m)
      [] call.op = "delete_movie" -> DeleteMovie(chats, call.chat_id, call.movie_id)

MutateKeepsGuard(t) ==
    /\ task[t].pc = "locked"
    /\ wlock = t
    /\ LET r == Mutated(task[t].call, inner.chats)
           g == IF r.chats # inner.chats THEN gen + 1 ELSE gen
       IN  /\ inner' = [inner EXCEPT !.chats = r.chats]
           /\ gen' = g
           /\ task' = [task EXCEPT ![t] =
                 [@ EXCEPT !.pc = IF r.changed THEN "flush" ELSE "done",
                           !.changed = r.changed,
                           !.mutgen = IF r.changed THEN g ELSE 0,
                           !.ret = IF r.changed THEN "none" ELSE "Ok(false)"]]
    /\ wlock' = wlock
    /\ UNCHANGED <<disk, lastFlushed, gj, tgVars>>

Mutate(t) ==
    /\ task[t].pc = "locked"
    /\ wlock = t
    /\ LET r == Mutated(task[t].call, inner.chats)
           g == IF r.chats # inner.chats THEN gen + 1 ELSE gen
       IN  /\ inner' = [inner EXCEPT !.chats = r.chats]
           /\ gen' = g
           /\ task' = [task EXCEPT ![t] =
                 [@ EXCEPT !.pc = IF r.changed THEN "flush" ELSE "done",
                           !.changed = r.changed,
                           !.mutgen = IF r.changed THEN g ELSE 0,
                           !.ret = IF r.changed THEN "none" ELSE "Ok(false)"]]
    /\ wlock' = 0
    /\ UNCHANGED <<disk, lastFlushed, gj, tgVars>>

\* flush: the snapshot taken under the read guard
Snapshot(t) ==
    /\ task[t].pc = "flush"
    /\ wlock = 0
    /\ task' = [task EXCEPT ![t] = [@ EXCEPT !.pc = "open", !.snapshot = Serialize(inner, gen)]]
    /\ UNCHANGED <<inner, wlock, disk, gen, lastFlushed, gj, tgVars>>

\* fs::write(&tmp, ..), first half: create or truncate the temp file
Open(t) ==
    /\ task[t].pc = "open"
    /\ disk' = [disk EXCEPT !.tmp = EmptyFile]
    /\ task' = [task EXCEPT ![t] = [@ EXCEPT !.pc = "write", !.fd = "tmp"]]
    /\ UNCHANGED <<inner, wlock, gen, lastFlushed, gj, tgVars>>

\* fs::write(&tmp, ..), second half: write_all into the opened file, close
Write(t) ==
    /\ task[t].pc = "write"
    /\ disk' = CASE task[t].fd = "tmp" -> [disk EXCEPT !.tmp = Overlay(@, task[t].snapshot)]
                 [] task[t].fd = "path" -> [disk EXCEPT !.path = Overlay(@, task[t].snapshot)]
                 [] OTHER -> disk
    /\ task' = [task EXCEPT ![t] = [@ EXCEPT !.pc = "rename", !.fd = "none"]]
    /\ UNCHANGED <<inner, wlock, gen, lastFlushed, gj, tgVars>>

OkOf(tk) ==
    IF tk.call.op \in {"put", "remove_chat"} THEN "Ok(())" ELSE "Ok(true)"

\* fs::rename(&tmp, &self.path) and the return of the operation
Rename(t) ==
    /\ task[t].pc = "rename"
    /\ IF disk.tmp.exists
       THEN /\ disk' = [path |-> disk.tmp, tmp |-> Missing]
            /\ task' = [u \in Tasks |->
                  IF u = t THEN [IdleTask EXCEPT !.pc = "done", !.call = task[t].call,
                                                  !.changed = task[t].changed,
                                                  !.ret = OkOf(task[t])]
                  ELSE [task[u] EXCEPT !.fd = CASE task[u].fd = "tmp" -> "path"
                                                [] task[u].fd = "path" -> "orphan"
                                                [] OTHER -> task[u].fd]]
            /\ lastFlushed' = task[t].snapshot.doc
       ELSE /\ task' = [task EXCEPT ![t] = [@ EXCEPT !.pc = "done", !.ret = "Err",
                                                     !.snapshot = Missing, !.mutgen = 0]]
            /\ UNCHANGED <<disk, lastFlushed>>
    /\ UNCHANGED <<inner, wlock, gen, gj, tgVars>>

FailIoRollsBack(t) ==
    /\ task[t].pc \in {"open", "write", "rename"}
    /\ task' = [task EXCEPT ![t] = [@ EXCEPT !.pc = "done", !.ret = "Err", !.fd = "none",
                                          !.snapshot = Missing, !.mutgen = 0]]
    /\ inner' = lastFlushed
    /\ UNCHANGED <<wlock, disk, gen, lastFlushed, gj, tgVars>>

\* an I/O error of fs::write or fs::rename, propagated by `?`
FailIo(t) ==
    /\ task[t].pc \in {"open", "write", "rename"}
    /\ task' = [task EXCEPT ![t] = [@ EXCEPT !.pc = "done", !.ret = "Err", !.fd = "none",
                                          !.snapshot = Missing, !.mutgen = 0]]
    /\ UNCHANGED <<inner, wlock, disk, gen, lastFlushed, gj, tgVars>>

\* the process dies at any point, its tasks with it, and is started again:
\* Storage::new
CrashRestart ==
    /\ \E t \in Tasks : task[t].pc \notin {"idle", "dead"}
    /\ inner' = Load(disk.path)
    /\ wlock' = 0
    /\ task' = [t \in Tasks |->
          IF task[t].pc = "idle" THEN IdleTask ELSE [IdleTask EXCEPT !.pc = "dead"]]
    /\ UNCHANGED <<disk, gen, lastFlushed, gj, tgVars>>

Next ==
    \/ \E t \in Tasks : Invoke(t)
    \/ \E t \in Tasks : Mutate(t)
    \/ \E t \in Tasks : Snapshot(t)
    \/ \E t \in Tasks : Open(t)
    \/ \E t \in Tasks : Write(t)
    \/ \E t \in Tasks : Rename(t)
    \/ \E t \in Tasks : FailIo(t)
    \/ CrashRestart

Spec == Init /\ [][Next]_vars

(* --------------------------- get_json steps --------------------------- *)
storeVars == <<inner, wlock, disk, task, gen, lastFlushed>>

\* let mut delays = [300u64, 800, 1500].into_iter();
CallGetJson ==
    /\ gj.pc \in {"idle", "done"}
    /\ gj' = [IdleCall EXCEPT !.pc = "send", !.delays = Delays]
    /\ UNCHANGED <<storeVars, tgVars>>

\* req.send().await and the match on its outcome
Send ==
    /\ gj.pc = "send"
    /\ \E o \in Outcomes :
        LET r == Step(o, gj.delays)
        IN  gj' = [gj EXCEPT !.pc = r.next, !.delays = r.delays, !.ms = r.ms,
                             !.ret = r.ret, !.attempts = @ + 1, !.log = Append(@, o)]
    /\ UNCHANGED <<storeVars, tgVars>>

\* sleep(Duration::from_millis(ms)).await; continue
Sleep ==
    /\ gj.pc = "sleep"
    /\ gj' = [gj EXCEPT !.pc = "send", !.slept = Append(@, gj.ms), !.ms = 0]
    /\ UNCHANGED <<storeVars, tgVars>>

NextRetry == CallGetJson \/ Send \/ Sleep

SpecRetry == Init /\ [][NextRetry]_vars

(* ---------------------- best_trailer_url, stepwise -------------------- *)
MediaTypes == {"Movie", "Tv", "Person"}

\* the call and its match on media_type
CallBestTrailer ==
    /\ bt.pc \in {"idle", "done"}
    /\ \E mt \in MediaTypes :
        bt' = IF mt = "Person"
              THEN [IdleTrailer EXCEPT !.pc = "done", !.media_type = mt,
                        !.ret = [kind |-> "Ok", url |-> NoUrl, err |-> NoRet]]
              ELSE [IdleTrailer EXCEPT !.pc = "query", !.media_type = mt, !.lang = 1]
    /\ UNCHANGED <<storeVars, gj, LAST_SEARCH, ev, vote>>

\* one pass of: for lang in ["ru-RU", "en-US"] { match self.get_json(..).await {..} }
QueryLang ==
    /\ bt.pc = "query"
    /\ \E r \in VideoResponses :
        LET b == AfterQuery(bt, r)
        IN  bt' = [b EXCEPT !.resp = Append(@, r),
                            !.lang = @ + 1,
                            !.pc = IF bt.lang = Len(Langs) THEN "select" ELSE "query"]
    /\ UNCHANGED <<storeVars, gj, LAST_SEARCH, ev, vote>>

\* what follows the loop: the any_ok test, the filter, the sort, the first
Select ==
    /\ bt.pc = "select"
    /\ bt' = [bt EXCEPT !.pc = "done", !.ret = TrailerResult(bt)]
    /\ UNCHANGED <<storeVars, gj, LAST_SEARCH, ev, vote>>

NextTrailer == CallBestTrailer \/ QueryLang \/ Select

SpecTrailer == Init /\ [][NextTrailer]_vars

(* --------------------------- tg.rs handlers --------------------------- *)
\* One update is handled per step. A store call is its effect on the map in
\* memory and the result of its flush; the files are followed in Spec.
\* Sends to the chat succeed.

\* entries as the add arm stores them; poster_path is kept as present or absent
Stored(i, t, p, d) == [id |-> i, title |-> t, poster_path |-> p, release_date |-> d]

TenStored == [i \in 1..10 |-> Stored(i, "A", FALSE, NoneStr)]

\* the state file found at start: none, or one holding ten entries for chat 1
InitialFiles == {Missing, Serialize([version |-> CurrentVersion, chats |-> (1 :> TenStored)], 0)}

InitFlow ==
    /\ \E f \in InitialFiles :
        /\ disk = [path |-> f, tmp |-> Missing]
        /\ inner = Load(f)
        /\ lastFlushed = Load(f)
    /\ wlock = 0
    /\ task = [t \in Tasks |-> IdleTask]
    /\ gen = 0
    /\ gj = IdleCall
    /\ bt = IdleTrailer
    /\ LAST_SEARCH = <<>>
    /\ ev = NoEvent
    /\ vote = IdleVote

flowFrame == <<wlock, disk, task, gen, lastFlushed, gj, bt, vote>>

\* on_search_text for a non-empty query
OnSearchText ==
    \E chat_id \in ChatIds, r \in SearchResponses :
        /\ LAST_SEARCH' = IF r.ok /\ r.results # <<>>
                          THEN MapInsert(LAST_SEARCH, chat_id, r.results)
                          ELSE LAST_SEARCH
        /\ ev' = IF ~r.ok
                 THEN Event("search", chat_id, <<>>, r, "none", "none", <<>>, "Err")
                 ELSE IF r.results = <<>>
                      THEN Event("search", chat_id, <<>>, r, "none", "none",
                                 <<Msg("message", "NothingFound")>>, "Ok")
                 ELSE Event("search", chat_id, <<>>, r, "none", "none",
                            <<Msg("message", "Results"), Msg("message", "ChooseToAdd")>>, "Ok")
        /\ UNCHANGED <<inner, flowFrame>>

\* the calls an arm makes have an outcome to choose; the others have none
IsShow(data) == SplitN2(data).cmd = <<"s", "h", "o", "w">>
StoreOutcomes(data) == IF IsShow(data) THEN {TRUE} ELSE BOOLEAN
DetailOutcomes(data) == IF IsShow(data) THEN DetailResponses ELSE {NoCatalog}
ImageOutcomes(data) == IF IsShow(data) THEN BOOLEAN ELSE {TRUE}

\* on_callback for a query that carries data
OnCallback ==
    \E chat_id \in ChatIds, data \in CallbackData :
      \E flushOk \in StoreOutcomes(data), details \in DetailOutcomes(data),
         imageOk \in ImageOutcomes(data) :
        LET a == Callback(inner.chats, LAST_SEARCH, chat_id, data, flushOk, details, imageOk)
        IN  /\ inner' = [inner EXCEPT !.chats = a.chats]
            /\ ev' = Event("callback", chat_id, data, a.catalog, a.image, a.flush, a.sent, a.ret)
            /\ UNCHANGED <<LAST_SEARCH, flowFrame>>

\* on_command, Command::Reset
OnReset ==
    \E chat_id \in ChatIds, flushOk \in BOOLEAN :
        /\ inner' = [inner EXCEPT !.chats = RemoveChats(@, chat_id)]
        /\ LAST_SEARCH' = IF flushOk THEN MapRemove(LAST_SEARCH, chat_id) ELSE LAST_SEARCH
        /\ ev' = IF flushOk
                 THEN Event("reset", chat_id, <<>>, NoCatalog, "none", "ok",
                            <<Msg("message", "ListCleared")>>, "Ok")
                 ELSE Event("reset", chat_id, <<>>, NoCatalog, "none", "failed", <<>>, "Err")
        /\ UNCHANGED flowFrame

\* on_command, Command::List
OnList ==
    \E chat_id \in ChatIds :
        /\ ev' = Event("list", chat_id, <<>>, NoCatalog, "none", "none",
                       ListView(inner.chats, chat_id), "Ok")
        /\ UNCHANGED <<inner, LAST_SEARCH, flowFrame>>

NextFlow == OnSearchText \/ OnCallback \/ OnReset \/ OnList

SpecFlow == InitFlow /\ [][NextFlow]_vars

(* -------------------------- run_vote_flow ----------------------------- *)
\* stored entries as add_movie wrote them: a full date, no date, an empty date
S1 == Stored(1, "A", TRUE, SomeStr(IsoDate))
S2 == Stored(2, "B", FALSE, NoneStr)
S3 == Stored(3, "C", TRUE, SomeStr(<<>>))

VoteLists == {<<>>, <<S1>>, <<S2, S3>>, <<S1, S2, S3>>}

\* Storage::new on a state file holding one of the lists for chat 1
InitVote ==
    /\ \E list \in VoteLists :
        LET f == Serialize([version |-> CurrentVersion, chats |-> (1 :> list)], 0)
        IN  /\ disk = [path |-> f, tmp |-> Missing]
            /\ inner = Load(f)
            /\ lastFlushed = Load(f)
    /\ wlock = 0
    /\ task = [t \in Tasks |-> IdleTask]
    /\ gen = 0
    /\ gj = IdleCall
    /\ bt = IdleTrailer
    /\ LAST_SEARCH = <<>>
    /\ ev = NoEvent
    /\ vote = IdleVote

voteFrame == <<storeVars, gj, bt, LAST_SEARCH, ev>>

HasPoster(list) == \E k \in 1..Len(list) : list[k].poster_path

\* send_album_from_stored: an album goes out when some poster was fetched
Album(list, fetched) ==
    IF HasPoster(list) /\ fetched THEN <<Msg("album", "Posters")>> ELSE <<>>

\* Command::Vote up to the loop over the list
VoteStart ==
    /\ vote.pc \in {"idle", "done"}
    /\ \E chat \in ChatIds, fetched \in BOOLEAN :
        LET list == Get(inner.chats, chat)
        IN  vote' = IF Len(list) < 2
                    THEN [IdleVote EXCEPT !.pc = "done", !.chat = chat, !.list = list,
                              !.sent = <<Msg("message", "NeedTwo")>>, !.ret = "Ok"]
                    ELSE [IdleVote EXCEPT !.pc = "entries", !.chat = chat, !.list = list,
                              !.i = 1,
                              !.sent = <<Poll([k \in 1..Len(list) |->
                                                   OneLineTitleStored(list[k])])>>
                                       \o Album(list, fetched)]
    /\ UNCHANGED voteFrame

\* one pass of: for sm in &list { .. }
VoteEntry ==
    /\ vote.pc = "entries"
    /\ vote.i <= Len(vote.list)
    /\ \E details \in DetailResponses, trailer \in BOOLEAN :
        vote' = IF ~details.ok
                THEN [vote EXCEPT !.pc = "done", !.ret = "Err", !.lookups = @ + 1]
                ELSE IF details.results = <<>>
                     THEN [vote EXCEPT !.i = @ + 1, !.lookups = @ + 1]
                ELSE [vote EXCEPT !.i = @ + 1, !.lookups = @ + 2,
                          !.blocks = Append(@, vote.list[vote.i].id),
                          !.trailer_lines = IF trailer THEN Append(@, vote.list[vote.i].id)
                                            ELSE @]
    /\ UNCHANGED voteFrame

\* what follows the loop: descriptions, trailers if any, the credit line
VoteFinish ==
    /\ vote.pc = "entries"
    /\ vote.i > Len(vote.list)
    /\ vote' = [vote EXCEPT !.pc = "done", !.ret = "Ok",
                    !.sent = @ \o <<Msg("message", "Descriptions")>>
                               \o (IF vote.trailer_lines # <<>>
                                   THEN <<Msg("message", "Trailers")>> ELSE <<>>)
                               \o <<Msg("message", "Credit")>>]
    /\ UNCHANGED voteFrame

NextVote == VoteStart \/ VoteEntry \/ VoteFinish

SpecVote == InitVote /\ [][NextVote]_vars

(* ------------------------- Storage::new, restarts --------------------- *)
\* documents a state file can hold at start: written by this version or by
\* one that left the version marker at 0
StartDocs ==
    {[version |-> v, chats |-> cs] :
        v \in {0, 1},
        cs \in {<<>>, (1 :> Run(2)), (1 :> Run(1)) @@ (2 :> Run(2))}}

\* the file at start: none, empty, a complete document, or a document
\* followed by bytes that do not belong to it
StartFiles ==
    {Missing, EmptyFile}
    \cup {Serialize(d, 0) : d \in StartDocs}
    \cup {[Serialize(d, 0) EXCEPT !.len = @ + 1] : d \in StartDocs}

InitStart ==
    /\ \E f \in StartFiles :
        /\ disk = [path |-> f, tmp |-> Missing]
        /\ inner = Load(f)
        /\ lastFlushed = Load(f)
    /\ wlock = 0
    /\ task = [t \in Tasks |-> IdleTask]
    /\ gen = 0
    /\ gj = IdleCall
    /\ bt = IdleTrailer
    /\ LAST_SEARCH = <<>>
    /\ ev = NoEvent
    /\ vote = IdleVote

\* one store operation run alone, from the write guard to the return of its
\* flush; task 1 keeps what it returned
StoreCall ==
    \E c \in Calls, flushOk \in BOOLEAN :
        LET r == Mutated(c, inner.chats)
            after == [inner EXCEPT !.chats = r.chats]
            ret == IF ~r.changed THEN "Ok(false)"
                   ELSE IF ~flushOk THEN "Err"
                   ELSE IF c.op \in {"put", "remove_chat"} THEN "Ok(())" ELSE "Ok(true)"
        IN  /\ inner' = after
            /\ IF r.changed /\ flushOk
               THEN /\ disk' = [path |-> Serialize(after, gen), tmp |-> Missing]
                    /\ lastFlushed' = after
               ELSE UNCHANGED <<disk, lastFlushed>>
            /\ task' = [task EXCEPT ![1] = [IdleTask EXCEPT !.pc = "done", !.ret = ret]]
            /\ UNCHANGED <<wlock, gen, gj, tgVars>>

\* the process stops and is started again: Storage::new on the file at path
Restart ==
    /\ inner' = Load(disk.path)
    /\ task' = [t \in Tasks |-> IdleTask]
    /\ UNCHANGED <<wlock, disk, gen, lastFlushed, gj, tgVars>>

NextStart == StoreCall \/ Restart

SpecStart == InitStart /\ [][NextStart]_vars

(* ------------------------- properties: the store ---------------------- *)
\* the step of task t that runs the block under the write guard
MutateStep(t, op) ==
    /\ task[t].pc = "locked"
    /\ task'[t].pc \in {"flush", "done"}
    /\ task[t].call.op = op

NoDuplicateIds(list) ==
    \A i, j \in 1..Len(list) : i # j => list[i].id # list[j].id

\* C1: after any interleaving of put, remove_chat, add_movie and delete_movie
\* on an initially empty store, get(c) has at most 10 entries for every c.
C1_AtMostTenEntries ==
    \A c \in ChatIds : Len(Get(inner.chats, c)) <= 10

\* a put of 12 entries has been truncated and the list holds exactly 10
C1_Witness ==
    \E t \in Tasks :
        /\ task[t].pc = "done"
        /\ task[t].call.op = "put"
        /\ Len(task[t].call.movies) = 12
        /\ Len(Get(inner.chats, task[t].call.chat_id)) = 10

\* C2: after any sequence of insert, deleteEntry and replace, also with a
\* replace whose sequence repeats an id, get(c) holds no two entries with
\* the same id.
C2_NoDuplicateIds ==
    \A c \in ChatIds : NoDuplicateIds(Get(inner.chats, c))

\* C3: at every moment, also at a crash point and while flushes overlap, the
\* file at the state path is a complete document, and loading it gives the
\* document of the last flush that completed successfully.
C3_FileAlwaysComplete ==
    /\ disk.path.exists => Parses(disk.path)
    /\ Load(disk.path) = lastFlushed

\* C4: when a mutating operation returns success, the file at the state path
\* is a complete document that contains the operation's mutation, also with
\* other mutating operations running concurrently.
C4_DurableOnSuccess ==
    [][\A t \in Tasks :
        (/\ task[t].pc = "rename"
         /\ task'[t].pc = "done"
         /\ task'[t].ret \in {"Ok(())", "Ok(true)"})
        => (/\ Parses(disk'.path)
            /\ disk'.path.gen >= task[t].mutgen)]_vars

\* C5: add_movie of an id already in the list, or into a list of 10 entries,
\* returns not-added, leaves the stored document as it was (order and
\* contents) and returns without any write to the files.
C5_InsertRejectIsNoOp ==
    [][\A t \in Tasks :
        (/\ MutateStep(t, "add_movie")
         /\ LET list == Get(inner.chats, task[t].call.chat_id)
            IN  HasId(list, task[t].call.m.id) \/ Len(list) >= 10)
        => (/\ inner' = inner
            /\ disk' = disk
            /\ task'[t].pc = "done"
            /\ task'[t].ret = "Ok(false)")]_vars

\* an add_movie returned not-added for an id the list holds under another
\* title, and the list still holds the old entry
C5_Witness ==
    \E t \in Tasks :
        /\ task[t].pc = "done"
        /\ task[t].call.op = "add_movie"
        /\ task[t].ret = "Ok(false)"
        /\ LET list == Get(inner.chats, task[t].call.chat_id)
           IN  /\ Len(list) < 10
               /\ \E k \in 1..Len(list) :
                    /\ list[k].id = task[t].call.m.id
                    /\ list[k] # task[t].call.m

\* C6: put(c, entries) makes the list of c the first 10 of entries when there
\* are more than 10, and entries itself otherwise, whatever c held before.
C6_ReplaceKeepsFirstTen ==
    [][\A t \in Tasks :
        MutateStep(t, "put")
        => LET entries == task[t].call.movies
           IN  /\ task[t].call.chat_id \in DOMAIN inner'.chats
               /\ inner'.chats[task[t].call.chat_id] =
                    IF Len(entries) > 10
                    THEN [i \in 1..10 |-> entries[i]]
                    ELSE entries]_vars

\* a put of 12 entries has replaced the 3 entries of an earlier put by its
\* first 10
C6_Witness ==
    \E t, u \in Tasks :
        /\ t # u
        /\ task[u].pc = "done" /\ task[u].call.op = "put"
        /\ Len(task[u].call.movies) = 3
        /\ task[t].pc = "flush" /\ task[t].call.op = "put"
        /\ task[t].call.chat_id = task[u].call.chat_id
        /\ Len(task[t].call.movies) = 12
        /\ inner.chats[task[t].call.chat_id] = SubSeq(task[t].call.movies, 1, 10)

\* C7: delete_movie removes the entries with the id and keeps the others in
\* their order, goes on to flush and returns removed; with no such entry (or
\* no list) it changes nothing, writes nothing and returns not-removed.
C7_DeleteEntry ==
    [][\A t \in Tasks :
        /\ MutateStep(t, "delete_movie")
            => LET c == task[t].call.chat_id
                   list == Get(inner.chats, c)
               IN  IF HasId(list, task[t].call.movie_id)
                   THEN /\ Get(inner'.chats, c) =
                             SelectSeq(list, LAMBDA e : e.id # task[t].call.movie_id)
                        /\ \A d \in ChatIds \ {c} :
                             Get(inner'.chats, d) = Get(inner.chats, d)
                        /\ task'[t].pc = "flush"
                   ELSE /\ inner' = inner
                        /\ disk' = disk
                        /\ task'[t].pc = "done"
                        /\ task'[t].ret = "Ok(false)"
        /\ (task[t].pc = "rename" /\ task'[t].pc = "done"
            /\ task[t].call.op = "delete_movie" /\ task'[t].ret # "Err")
            => task'[t].ret = "Ok(true)"]_vars

\* a delete_movie of id 5 returned removed and left the other 9 of 10 entries
C7_Witness ==
    \E t \in Tasks :
        /\ task[t].pc = "done"
        /\ task[t].call.op = "delete_movie"
        /\ task[t].ret = "Ok(true)"
        /\ Get(inner.chats, task[t].call.chat_id) =
             [i \in 1..9 |-> StoredMovie(IF i < 5 THEN i ELSE i + 1, "A")]

(* ------------------------- properties: get_json ----------------------- *)
Retryable(o) == o.send = "Err" \/ o.status = 429 \/ (o.status >= 500 /\ o.status <= 599)

\* C8: a remote call makes at most 3 HTTP attempts, whatever retryable
\* outcomes the remote side produces.
C8_AtMostThreeAttempts ==
    gj.attempts <= 3

\* C9: a call whose first k attempts fail with a retryable condition and
\* whose next attempt succeeds returns the result and has slept exactly the
\* first k delays of 300, 800, 1500, in that order, one after each failure.
C9_BackoffSchedule ==
    /\ gj.slept = SubSeq(<<300, 800, 1500>>, 1, Len(gj.slept))
    /\ gj.pc = "send" => Len(gj.slept) = gj.attempts
    /\ (gj.pc = "done" /\ gj.ret.kind = "Ok")
        => /\ Len(gj.slept) = gj.attempts - 1
           /\ Len(gj.log) = gj.attempts
           /\ \A i \in 1..(Len(gj.log) - 1) : Retryable(gj.log[i])

\* 500, 500, success: the call returned Ok and slept 300 then 800
C9_Witness ==
    /\ gj.pc = "done"
    /\ gj.ret.kind = "Ok"
    /\ Len(gj.log) = 3
    /\ gj.log[1].status = 500 /\ gj.log[2].status = 500
    /\ gj.slept = <<300, 800>>

ErrorOfStatus(s) ==
    CASE s = 401 -> [kind |-> "Auth", code |-> 0]
      [] s = 403 -> [kind |-> "Forbidden", code |-> 0]
      [] s = 404 -> [kind |-> "NotFound", code |-> 0]
      [] OTHER -> [kind |-> "Unexpected", code |-> s]

\* C10: a response whose status is not 200, 429 or 5xx ends the call at once
\* with Auth, Forbidden, NotFound or Unexpected(code): no sleep and no
\* attempt follows it, however many retryable failures came before.
C10_FailFast ==
    [][/\ (gj.pc = "send" /\ Len(gj'.log) = Len(gj.log) + 1)
            => LET o == gj'.log[Len(gj'.log)]
               IN  (o.send = "Ok" /\ o.status # 200 /\ ~Retryable(o))
                   => /\ gj'.pc = "done"
                      /\ gj'.ret = ErrorOfStatus(o.status)
                      /\ gj'.slept = gj.slept
       /\ (gj.pc = "done" /\ gj' # gj)
            => (gj'.attempts = 0 /\ gj'.slept = <<>>)]_vars

\* 404 after two retryable failures: NotFound, and only two delays slept
C10_Witness ==
    /\ gj.pc = "done"
    /\ gj.ret.kind = "NotFound"
    /\ Len(gj.log) = 3
    /\ gj.slept = <<300, 800>>

ConditionKind(o) ==
    IF o.send = "Err" THEN [kind |-> "Net", code |-> 0]
    ELSE IF o.status = 429 THEN [kind |-> "RateLimited", code |-> 0]
    ELSE [kind |-> "Server", code |-> o.status]

\* C11: a call that ends on a retryable condition has used up all three
\* delays, and the error it returns is the kind of that last attempt's
\* condition (Net for a transport failure, RateLimited for 429, Server with
\* the last 5xx code), whatever the earlier attempts' conditions were.
C11_LastConditionKind ==
    (gj.pc = "done" /\ gj.log # <<>> /\ Retryable(gj.log[Len(gj.log)]))
        => /\ gj.slept = <<300, 800, 1500>>
           /\ gj.ret = ConditionKind(gj.log[Len(gj.log)])

\* transport failure, 429, 500, then 503: the call gives up with Server(503)
C11_Witness ==
    /\ gj.pc = "done"
    /\ Len(gj.log) = 4
    /\ gj.log[1].send = "Err" /\ gj.log[2].status = 429
    /\ gj.log[3].status = 500 /\ gj.log[4].status = 503
    /\ gj.ret = [kind |-> "Server", code |-> 503]

(* --------------------- properties: best_trailer_url ------------------- *)
\* the videos of the successful language queries, in query order
Merged(resp) ==
    (IF resp[1].ok THEN resp[1].results ELSE <<>>)
    \o (IF resp[2].ok THEN resp[2].results ELSE <<>>)

SiteHosted(v) == v.site \in {"YouTube", "youtube", "YOUTUBE"}

OfficialRank(v) == IF v.official = "true" THEN 0 ELSE 1

TypeRank(v) == IF v.type = "Trailer" THEN 0 ELSE IF v.type = "Teaser" THEN 1 ELSE 2

\* a is not after b: official before unofficial, then Trailer, Teaser, other
NotAfter(a, b) ==
    \/ OfficialRank(a) < OfficialRank(b)
    \/ (OfficialRank(a) = OfficialRank(b) /\ TypeRank(a) <= TypeRank(b))

Before(a, b) == NotAfter(a, b) /\ ~NotAfter(b, a)

\* C12: a finished best_trailer_url call that had a successful query returns
\* the site-hosted video of the merged responses that no other site-hosted
\* video precedes in the order (official, then Trailer < Teaser < other),
\* the earliest such video in merged order; it returns nothing exactly when
\* the merged responses hold no site-hosted video.
C12_BestTrailerSelection ==
    (bt.pc = "done" /\ bt.media_type # "Person" /\ bt.ret.kind = "Ok")
        => LET all == Merged(bt.resp)
               hosted == {i \in 1..Len(all) : SiteHosted(all[i])}
           IN  /\ bt.ret.url.some <=> hosted # {}
               /\ hosted # {}
                    => \E i \in hosted :
                        /\ bt.ret.url.url = <<"https://www.youtube.com/watch?v=", all[i].key>>
                        /\ \A j \in hosted :
                            /\ ~Before(all[j], all[i])
                            /\ NotAfter(all[j], all[i]) => i <= j

\* the example [unofficial Teaser, official Trailer, official Teaser], merged
\* with a second response whose official Teasers tie: the official Trailer
C12_Witness ==
    /\ bt.pc = "done"
    /\ Len(bt.resp) = 2
    /\ bt.resp[1].ok /\ bt.resp[1].results = ExampleVideos
    /\ bt.resp[2].ok /\ Len(bt.resp[2].results) = 3
    /\ bt.ret.url = [some |-> TRUE, url |-> <<"https://www.youtube.com/watch?v=", "k2">>]

\* C13: when both language queries fail, best_trailer_url returns the error
\* of the second query; when at least one succeeds, also with zero videos,
\* it returns Ok, and the video it names, if any, is one of a successful
\* query's videos.
C13_TrailerErrors ==
    (bt.pc = "done" /\ bt.media_type # "Person")
        => /\ Len(bt.resp) = 2
           /\ (~bt.resp[1].ok /\ ~bt.resp[2].ok)
                => (bt.ret.kind = "Err" /\ bt.ret.err = bt.resp[2].err /\ ~bt.ret.url.some)
           /\ (bt.resp[1].ok \/ bt.resp[2].ok)
                => /\ bt.ret.kind = "Ok"
                   /\ bt.ret.err = NoRet
                   /\ bt.ret.url.some
                        => \E n \in 1..2 :
                            /\ bt.resp[n].ok
                            /\ \E k \in 1..Len(bt.resp[n].results) :
                                bt.ret.url.url[2] = bt.resp[n].results[k].key

\* the first query fails on the network, the second with NotFound
C13_Witness ==
    /\ bt.pc = "done"
    /\ Len(bt.resp) = 2
    /\ bt.resp[1].err = [kind |-> "Net", code |-> 0]
    /\ bt.resp[2].err = [kind |-> "NotFound", code |-> 0]
    /\ bt.ret.kind = "Err"
    /\ bt.ret.err = [kind |-> "NotFound", code |-> 0]

\* one query fails, the other succeeds with zero videos: Ok with no url
C13_WitnessOneOk ==
    /\ bt.pc = "done"
    /\ Len(bt.resp) = 2
    /\ ~bt.resp[1].ok
    /\ bt.resp[2].ok /\ bt.resp[2].results = <<>>
    /\ bt.ret.kind = "Ok"

(* ------------------------ properties: the handlers ------------------- *)
\* the action tag and the id of the callback data of an event
TagOf(e) == SplitN2(e.data).cmd
IdOf(e) == ParseU64(SplitN2(e.data).id_str)
IsAddToken(e) == e.kind = "callback" /\ TagOf(e) = <<"a", "d", "d">> /\ IdOf(e).ok

\* C14: after a SearchText event whose catalog search succeeded, the search
\* cache of the conversation is exactly that search's result sequence, the
\* empty result included.
C14_CacheIsLastSearch ==
    (ev.kind = "search" /\ ev.catalog.ok)
        => Get(LAST_SEARCH, ev.chat) = ev.catalog.results

\* C15: an add token whose id is not among the conversation's last search
\* results is answered "not found in last search" and leaves the store's map
\* as it was, whatever the other conversations' caches and lists hold.
C15_AddOutsideLastSearch ==
    [][(IsAddToken(ev') /\ ~HasId(Get(LAST_SEARCH, ev'.chat), IdOf(ev').val))
        => /\ ev'.sent = <<Msg("answer", "NotInLastSearch")>>
           /\ ev'.ret = "Ok"
           /\ inner' = inner
           /\ LAST_SEARCH' = LAST_SEARCH]_vars

\* add:1 in chat 2 is not found while chat 1 has id 1 in its cache and list
C15_Witness ==
    /\ IsAddToken(ev)
    /\ ev.chat = 2
    /\ IdOf(ev).val = 1
    /\ ev.sent = <<Msg("answer", "NotInLastSearch")>>
    /\ HasId(Get(LAST_SEARCH, 1), 1)
    /\ HasId(Get(inner.chats, 1), 1)
    /\ ~HasId(Get(LAST_SEARCH, 2), 1)

\* C16: an add token resolved in the last search is answered "already in
\* list" whenever its id is in the conversation's list, also when the list
\* holds 10 entries, and "list full" only when the id is absent and the list
\* holds 10 entries.
C16_RejectionReason ==
    [][(IsAddToken(ev') /\ HasId(Get(LAST_SEARCH, ev'.chat), IdOf(ev').val))
        => LET list == Get(inner.chats, ev'.chat)
               id == IdOf(ev').val
           IN  /\ HasId(list, id) => ev'.sent = <<Msg("answer", "AlreadyInList")>>
               /\ ev'.sent = <<Msg("answer", "ListFull")>>
                    => (~HasId(list, id) /\ Len(list) = 10)]_vars

\* C18: callback data that is not tag:number, or whose tag is none of add,
\* del and show, is answered "unknown action" and changes neither the
\* store's map nor the search cache.
C18_UnknownActionAnswered ==
    [][(ev'.kind = "callback"
            /\ (~IdOf(ev').ok
                \/ TagOf(ev') \notin {<<"a", "d", "d">>, <<"d", "e", "l">>,
                                      <<"s", "h", "o", "w">>}))
        => /\ ev'.sent = <<Msg("answer", "UnknownAction")>>
           /\ inner' = inner
           /\ LAST_SEARCH' = LAST_SEARCH]_vars

\* C19: after a Reset event of a conversation its list is empty and its
\* search cache is cleared.
C19_ResetClearsBoth ==
    ev.kind = "reset"
        => /\ Get(inner.chats, ev.chat) = <<>>
           /\ ev.chat \notin DOMAIN LAST_SEARCH

\* C20: an event whose catalog call failed sends the user exactly one
\* notice, and a detail view whose image fetch failed is still sent as text.
C20_CatalogErrorNotice ==
    /\ (ev.kind \in {"search", "callback"} /\ ~ev.catalog.ok)
        => (Len(ev.sent) = 1 /\ ev.sent[1].via \in {"message", "answer"})
    /\ (ev.kind = "callback" /\ ev.image = "failed")
        => ev.sent = <<Msg("message", "Details"), Msg("answer", "Shown")>>

(* ------------------------ properties: the vote ----------------------- *)
\* "<title> (<year>)" when the release date is known, "<title>" otherwise
PollOption(m) ==
    IF m.release_date.some /\ m.release_date.s # <<>>
    THEN <<m.title, " (", m.release_date.s[1], m.release_date.s[2],
           m.release_date.s[3], m.release_date.s[4], ")">>
    ELSE <<m.title>>

Polls(sent) == {k \in 1..Len(sent) : sent[k].via = "poll"}

\* C17: a vote creates a poll exactly when the chat's list has at least 2
\* entries. With fewer it sends only the "need at least 2" notice and makes
\* no catalog call; with n >= 2 the poll is the first thing sent and has n
\* options in list order, each "<title> (<year>)" or "<title>".
C17_PollIffTwoEntries ==
    vote.pc # "idle"
        => LET list == Get(inner.chats, vote.chat)
               n == Len(list)
           IN  /\ n < 2 => /\ vote.sent = <<Msg("message", "NeedTwo")>>
                           /\ vote.lookups = 0
                           /\ vote.pc = "done"
               /\ n >= 2 => /\ Polls(vote.sent) = {1}
                            /\ Len(vote.sent[1].options) = n
                            /\ \A k \in 1..n : vote.sent[1].options[k] = PollOption(list[k])

\* a finished vote over three entries: full date, no date, empty date
C17_Witness ==
    /\ vote.pc = "done"
    /\ vote.ret = "Ok"
    /\ Len(vote.list) = 3
    /\ vote.sent[1].options
         = <<<<"A", " (", "2", "0", "2", "4", ")">>, <<"B">>, <<"C">>>>
    /\ vote.lookups = 6

\* a vote over one entry: the notice only
C17_WitnessOneEntry ==
    /\ vote.pc = "done"
    /\ Len(Get(inner.chats, vote.chat)) = 1
    /\ vote.sent = <<Msg("message", "NeedTwo")>>

(* ------------------------ properties: the start ----------------------- *)
\* C21: a store that has just been started holds the empty document at
\* version 1 when the state file is missing or does not parse, the file's
\* conversations under version 1 when the file's version is 0, and the
\* file's document otherwise.
C21_StartupRecovery ==
    (\A t \in Tasks : task[t].pc = "idle")
        => /\ (~disk.path.exists \/ ~Parses(disk.path))
                => inner = [version |-> 1, chats |-> <<>>]
           /\ (disk.path.exists /\ Parses(disk.path))
                => /\ inner.chats = disk.path.doc.chats
                   /\ inner.version = IF disk.path.doc.version = 0 THEN 1
                                      ELSE disk.path.doc.version

\* a store started on a version-0 file that holds lists for two chats
C21_Witness ==
    /\ \A t \in Tasks : task[t].pc = "idle"
    /\ Parses(disk.path)
    /\ disk.path.doc.version = 0
    /\ DOMAIN disk.path.doc.chats = {1, 2}
    /\ inner = [version |-> 1, chats |-> disk.path.doc.chats]

\* a store started on a file that does not parse: the empty document
C21_WitnessUnparsable ==
    /\ \A t \in Tasks : task[t].pc = "idle"
    /\ disk.path.exists /\ ~Parses(disk.path)
    /\ disk.path.doc.chats # <<>>
    /\ inner = [version |-> 1, chats |-> <<>>]

(* --------------------- properties: flushes and locks ------------------ *)
\* what the call of a task has made of the list of its chat
Applied(call, list) ==
    CASE call.op = "put" ->
            list = SubSeq(call.movies, 1, IF Len(call.movies) > 10 THEN 10
                                          ELSE Len(call.movies))
      [] call.op = "remove_chat" -> list = <<>>
      [] call.op = "add_movie" -> list # <<>> /\ list[Len(list)] = call.m
      [] call.op = "delete_movie" -> \A k \in 1..Len(list) : list[k].id # call.movie_id

\* C22: when the write of the temp file or the rename fails, the operation
\* returns an error, the document in memory is left as it is (with the
\* operation's mutation when no other task has mutated since), the write
\* guard is not held by the failed task and the other tasks go on.
C22_FlushFailureKeepsMemory ==
    [][\A t \in Tasks :
        (/\ task[t].pc \in {"open", "write", "rename"}
         /\ task'[t].pc = "done"
         /\ task'[t].ret = "Err")
        => /\ inner' = inner
           /\ gen = task[t].mutgen
                => Applied(task[t].call, Get(inner'.chats, task[t].call.chat_id))
           /\ wlock' = wlock /\ wlock # t
           /\ \A u \in Tasks \ {t} : task'[u] = task[u]]_vars

\* a put of 12 entries failed to flush and left its 10 entries in memory; an
\* add_movie for the other chat then returned added and its flush wrote both
C22_Witness ==
    \E t, u \in Tasks :
        /\ task[t].pc = "done" /\ task[t].ret = "Err"
        /\ task[t].call.op = "put" /\ Len(task[t].call.movies) = 12
        /\ Len(Get(inner.chats, task[t].call.chat_id)) = 10
        /\ task[u].pc = "done" /\ task[u].ret = "Ok(true)"
        /\ task[u].call.op = "add_movie"
        /\ task[u].call.chat_id # task[t].call.chat_id
        /\ disk.path.exists /\ disk.path.doc = inner

\* C23: concurrent calls on one conversation behave as some sequential order
\* of them: each change of the document in memory is the whole mutation of
\* one call applied to the document as the call before left it, and a call
\* whose flush meets no disk fault returns what it returns when run alone
\* (its rename finds the temp file it wrote).
C23_Linearizable ==
    [][\A t \in Tasks :
        /\ (task[t].pc = "locked" /\ task'[t].pc \in {"flush", "done"})
            => /\ inner'.chats = Mutated(task[t].call, inner.chats).chats
               /\ task'[t].changed = Mutated(task[t].call, inner.chats).changed
               /\ \A u \in Tasks \ {t} : task[u].pc # "locked"
        /\ (task[t].pc = "rename" /\ task'[t].pc = "done" /\ task'[t].ret = "Err")
            => disk.tmp.exists]_vars

\* C25: a task that has file I/O of its flush pending does not hold the
\* write guard; the guard is held only by a task that is between acquiring
\* it and the end of its in-memory mutation.
C25_NoGuardAcrossIo ==
    \A t \in Tasks :
        /\ wlock = t => task[t].pc = "locked"
        /\ task[t].pc \in {"flush", "open", "write", "rename"} => wlock # t

\* one task is writing the temp file while another holds the write guard
C25_Witness ==
    \E t, u \in Tasks :
        /\ task[t].pc = "write"
        /\ wlock = u
        /\ task[u].pc = "locked"

\* C26: when every issued operation has returned, none with an error, and
\* some operation has flushed, the file at the state path holds the
\* document that is in memory.
C26_FileEqualsMemory ==
    (/\ \A t \in Tasks : task[t].pc \in {"idle", "done"} /\ task[t].ret # "Err"
     /\ \E t \in Tasks : task[t].pc = "done" /\ task[t].changed)
        => /\ Parses(disk.path)
           /\ disk.path.doc = inner

SameAdd(t, u) ==
    /\ task[t].call.op = "add_movie" /\ task[u].call.op = "add_movie"
    /\ task[t].call.chat_id = task[u].call.chat_id
    /\ task[t].call.m.id = task[u].call.m.id

Mutated2(t) == task[t].pc \in {"flush", "open", "write", "rename", "done"}

\* C27: of two add_movie calls for the same id in the same chat, with no
\* other call started, exactly one adds the entry, the other reports
\* not-added without an error, and the list holds the id once.
C27_DoubleTap ==
    \A t, u \in Tasks :
        (/\ t # u
         /\ SameAdd(t, u)
         /\ Mutated2(t) /\ Mutated2(u)
         /\ \A v \in Tasks \ {t, u} : task[v].pc = "idle")
        => LET list == Get(inner.chats, task[t].call.chat_id)
           IN  /\ task[t].changed # task[u].changed
               /\ ~task[t].changed => (task[t].pc = "done" /\ task[t].ret = "Ok(false)")
               /\ Cardinality({k \in 1..Len(list) : list[k].id = task[t].call.m.id}) = 1

\* both calls have returned: one added, one not, and the list holds the entry
C27_Witness ==
    \E t, u \in Tasks :
        /\ t # u
        /\ SameAdd(t, u)
        /\ task[t].pc = "done" /\ task[t].ret = "Ok(true)"
        /\ task[u].pc = "done" /\ task[u].ret = "Ok(false)"
        /\ Get(inner.chats, task[t].call.chat_id) = <<task[t].call.m>>

(* ------------------------ properties: isolation ----------------------- *)
\* the lists and the caches of the chats other than c are as before
OthersUnchanged(c) ==
    \A d \in ChatIds \ {c} :
        /\ Get(inner'.chats, d) = Get(inner.chats, d)
        /\ (d \in DOMAIN inner'.chats) = (d \in DOMAIN inner.chats)
        /\ Get(LAST_SEARCH', d) = Get(LAST_SEARCH, d)
        /\ (d \in DOMAIN LAST_SEARCH') = (d \in DOMAIN LAST_SEARCH)

\* C28: a search, a callback token, a reset or a list request of chat c
\* leaves the list and the search cache of every other chat unchanged.
C28_FlowIsolation ==
    [][ev'.kind \in {"search", "callback", "reset", "list"} => OthersUnchanged(ev'.chat)]_vars

\* a reset of chat 1 has emptied it while chat 2 keeps its list and cache
C28_Witness ==
    /\ ev.kind = "reset" /\ ev.chat = 1 /\ ev.ret = "Ok"
    /\ 1 \notin DOMAIN inner.chats
    /\ 1 \notin DOMAIN LAST_SEARCH
    /\ Len(Get(inner.chats, 2)) = 2
    /\ Get(LAST_SEARCH, 2) # <<>>

\* the same for the store's operations run concurrently: the mutation of a
\* put, remove_chat, add_movie or delete_movie on chat c leaves the other
\* chats' lists unchanged
C28_StoreIsolation ==
    [][\A t \in Tasks :
        (task[t].pc = "locked" /\ task'[t].pc \in {"flush", "done"})
        => \A d \in ChatIds \ {task[t].call.chat_id} :
            /\ Get(inner'.chats, d) = Get(inner.chats, d)
            /\ (d \in DOMAIN inner'.chats) = (d \in DOMAIN inner.chats)]_vars

(* ------------------------ properties: the vote, 2 --------------------- *)
\* C24: a vote over at least 2 entries goes through all entries and ends
\* with the credit line, whatever lookups fail on the way, and the poll it
\* sent stays sent.
C24_VoteBestEffort ==
    (vote.pc = "done" /\ Len(vote.list) >= 2)
        => /\ vote.i > Len(vote.list)
           /\ vote.sent[Len(vote.sent)] = Msg("message", "Credit")
           /\ Polls(vote.sent) = {1}

====
